---- MODULE Spec2Model ----
(***************************************************************************)
(* Model of agent/database_physical_backup.py: the DatabasePhysicalBackup  *)
(* orchestrator.  One run of backup_job followed by the finalizer __del__. *)
(* Every loop iteration over self.databases is one action; calls into the  *)
(* database driver, the filesystem, the dump utility and the snapshot      *)
(* service succeed or raise nondeterministically.                          *)
(***************************************************************************)
EXTENDS Integers, Sequences, FiniteSets, TLC

\* ---- bounds -------------------------------------------------------------
MaxDbs == 2
MaxTables == 1
MaxCalls == 3
MaxRows == 3

\* ---- value universes ----------------------------------------------------
DbNames == {"a", "b"}
Tables == 1..MaxTables
Engines == {"InnoDB", "MyISAM", "CSV"}
Extensions == {"ibd", "MYD", "MYI"}
SchemaTexts == {"ddl1", "ddl2"}
NoError == [kind |-> "none", step |-> "none", db |-> "none", table |-> 0]

VARIABLES databases, _db_instances, _db_tables_locked, innodb_tables,
          myisam_tables, table_schemas, manifest, snapshot_calls, db_files,
          pc, i, error, del_exc, history

vars == <<databases, _db_instances, _db_tables_locked, innodb_tables,
          myisam_tables, table_schemas, manifest, snapshot_calls, db_files,
          pc, i, error, del_exc, history>>

\* ---- helpers ------------------------------------------------------------
Range(s) == {s[k] : k \in 1..Len(s)}

SeqsUpTo(S, n) == UNION {[1..k -> S] : k \in 0..n}

Min(S) == CHOOSE m \in S : \A x \in S : m <= x

RECURSIVE SortSet(_)
SortSet(S) == IF S = {} THEN <<>> ELSE <<Min(S)>> \o SortSet(S \ {Min(S)})

\* Catalog contents of one database: the non-view tables and their engines.
Catalogs == UNION {[T -> Engines] : T \in SUBSET Tables}

\* Result of the catalog query: (table_name, ENGINE) rows ORDER BY table_name.
CatalogQuery(cat) ==
    LET names == SortSet(DOMAIN cat)
    IN  [k \in 1..Len(names) |-> <<names[k], cat[names[k]]>>]

\* The for-row loop with "else" in place of the MyISAM test.
RECURSIVE ClassifyRows_else_myisam(_, _, _)
ClassifyRows_else_myisam(data, innodb, myisam) ==
    IF data = <<>> THEN [innodb |-> innodb, myisam |-> myisam]
    ELSE LET table == Head(data)[1]
             engine == Head(data)[2]
         IN  IF engine = "InnoDB"
             THEN ClassifyRows_else_myisam(Tail(data), Append(innodb, table), myisam)
             ELSE ClassifyRows_else_myisam(Tail(data), innodb, Append(myisam, table))

\* The for-row loop of fetch_table_info: append each row to the list of its
\* engine, rows of any other engine are skipped.
RECURSIVE ClassifyRows(_, _, _)
ClassifyRows(data, innodb, myisam) ==
    IF data = <<>> THEN [innodb |-> innodb, myisam |-> myisam]
    ELSE LET table == Head(data)[1]
             engine == Head(data)[2]
         IN  IF engine = "InnoDB"
             THEN ClassifyRows(Tail(data), Append(innodb, table), myisam)
             ELSE IF engine = "MyISAM"
             THEN ClassifyRows(Tail(data), innodb, Append(myisam, table))
             ELSE ClassifyRows(Tail(data), innodb, myisam)

\* __init__ without the check for an empty list.
Init_no_empty_check ==
    /\ databases \in SeqsUpTo(DbNames, MaxDbs)
    /\ _db_instances = [d \in DbNames |-> "none"]
    /\ _db_tables_locked = [d \in Range(databases) |-> FALSE]
    /\ innodb_tables = [d \in Range(databases) |-> <<>>]
    /\ myisam_tables = [d \in Range(databases) |-> <<>>]
    /\ table_schemas = [d \in {} |-> ""]
    /\ manifest = [d \in {} |-> ""]
    /\ snapshot_calls = 0
    /\ db_files = {}
    /\ i = 1
    /\ history = <<>>
    /\ del_exc = "none"
    /\ pc = "fetch_table_info"
    /\ error = NoError

\* ---- construction -------------------------------------------------------
\* __init__: an empty list raises ValueError before any attribute is set.
Init ==
    /\ databases \in SeqsUpTo(DbNames, MaxDbs)
    /\ _db_instances = [d \in DbNames |-> "none"]
    /\ _db_tables_locked = [d \in Range(databases) |-> FALSE]
    /\ innodb_tables = [d \in Range(databases) |-> <<>>]
    /\ myisam_tables = [d \in Range(databases) |-> <<>>]
    /\ table_schemas = [d \in {} |-> ""]
    /\ manifest = [d \in {} |-> ""]
    /\ snapshot_calls = 0
    /\ db_files = {}
    /\ i = 1
    /\ history = <<>>
    /\ del_exc = "none"
    /\ IF databases = <<>>
       THEN /\ pc = "ctor_raised"
            /\ error = [NoError EXCEPT !.kind = "ValueError", !.step = "__init__"]
       ELSE /\ pc = "fetch_table_info"
            /\ error = NoError

\* get_db replacing a cached handle that is not usable by a new connection.
get_db_reconnect(db_name) ==
    LET instance == _db_instances[db_name]
        Out(ok, exc, st) == [ok |-> ok, exc |-> exc,
                             instances |-> [_db_instances EXCEPT ![db_name] = st]]
    IN  IF instance \in {"connected", "ready"}
        THEN {Out(TRUE, "none", instance),
              Out(FALSE, "DatabaseConnectionClosedWithDatabase", "lost")}
        ELSE IF db_name \notin Range(databases)
        THEN {Out(FALSE, "ValueError", "none")}
        ELSE {Out(FALSE, "OperationalError", "created"),
              Out(FALSE, "OperationalError", "connected"),
              Out(TRUE, "none", "ready")}

\* ---- connection registry ------------------------------------------------
\* get_db: the set of outcomes of one call.  A handle is stored in
\* _db_instances before connect() is called; handle states:
\*   none      no entry
\*   created   entry stored, connect() raised
\*   connected connected, the wait_timeout statement raised
\*   ready     connected and wait_timeout raised to 14400
\*   lost      the liveness check failed
\*   closed    close() was called
get_db(db_name) ==
    LET instance == _db_instances[db_name]
        Out(ok, exc, st) == [ok |-> ok, exc |-> exc,
                             instances |-> [_db_instances EXCEPT ![db_name] = st]]
    IN  IF instance # "none"
        THEN IF instance \in {"connected", "ready"}
             THEN {Out(TRUE, "none", instance),
                   Out(FALSE, "DatabaseConnectionClosedWithDatabase", "lost")}
             ELSE {Out(FALSE, "DatabaseConnectionClosedWithDatabase", instance)}
        ELSE IF db_name \notin Range(databases)
        THEN {Out(FALSE, "ValueError", "none")}
        ELSE {Out(FALSE, "OperationalError", "created"),
              Out(FALSE, "OperationalError", "connected"),
              Out(TRUE, "none", "ready")}

\* ---- control flow helpers ----------------------------------------------
Event(op, db, ok, arg) == [op |-> op, db |-> db, ok |-> ok, arg |-> arg]

\* backup_job with the unlock step called before the snapshot step.
NextStep_unlock_before_snapshot(step) ==
    CASE step = "fetch_table_info" -> "flush_tables"
      [] step = "flush_tables" -> "flush_changes_to_disk"
      [] step = "flush_changes_to_disk" -> "validate_exportable_files"
      [] step = "validate_exportable_files" -> "export_table_schemas"
      [] step = "export_table_schemas" -> "export_collected_metadata"
      [] step = "export_collected_metadata" -> "unlock_all_tables"
      [] step = "unlock_all_tables" -> "create_snapshot"
      [] step = "create_snapshot" -> "returned"

\* backup_job with the durable sync called before the flush step.
NextStep_sync_before_flush(step) ==
    CASE step = "fetch_table_info" -> "flush_changes_to_disk"
      [] step = "flush_changes_to_disk" -> "flush_tables"
      [] step = "flush_tables" -> "validate_exportable_files"
      [] step = "validate_exportable_files" -> "export_table_schemas"
      [] step = "export_table_schemas" -> "export_collected_metadata"
      [] step = "export_collected_metadata" -> "create_snapshot"
      [] step = "create_snapshot" -> "unlock_all_tables"
      [] step = "unlock_all_tables" -> "returned"

\* The body of backup_job: the step that follows each step.
NextStep(step) ==
    CASE step = "fetch_table_info" -> "flush_tables"
      [] step = "flush_tables" -> "flush_changes_to_disk"
      [] step = "flush_changes_to_disk" -> "validate_exportable_files"
      [] step = "validate_exportable_files" -> "export_table_schemas"
      [] step = "export_table_schemas" -> "export_collected_metadata"
      [] step = "export_collected_metadata" -> "create_snapshot"
      [] step = "create_snapshot" -> "unlock_all_tables"
      [] step = "unlock_all_tables" -> "returned"

\* The loop "for db_name in self.databases" moves on, or the step returns
\* and backup_job calls the next step.
Advance(step, next) ==
    IF i < Len(databases)
    THEN /\ pc' = step
         /\ i' = i + 1
    ELSE /\ pc' = next
         /\ i' = 1

\* An exception leaves the step and backup_job (there is no handler).
Raise(kind, step, db, table) ==
    /\ pc' = "raised"
    /\ i' = 1
    /\ error' = [kind |-> kind, step |-> step, db |-> db, table |-> table]

\* ---- backup_job steps ---------------------------------------------------
fetch_table_info ==
    /\ pc = "fetch_table_info"
    /\ LET db_name == databases[i]
       IN \E r \in get_db(db_name) :
          /\ _db_instances' = r.instances
          /\ IF ~r.ok
             THEN /\ Raise(r.exc, "fetch_table_info", db_name, 0)
                  /\ UNCHANGED <<innodb_tables, myisam_tables, history>>
             ELSE \/ /\ Raise("OperationalError", "fetch_table_info", db_name, 0)
                     /\ history' = Append(history, Event("catalog", db_name, FALSE, <<>>))
                     /\ UNCHANGED <<innodb_tables, myisam_tables>>
                  \/ \E cat \in Catalogs :
                       LET c == ClassifyRows(CatalogQuery(cat),
                                             innodb_tables[db_name],
                                             myisam_tables[db_name])
                       IN /\ innodb_tables' = [innodb_tables EXCEPT ![db_name] = c.innodb]
                          /\ myisam_tables' = [myisam_tables EXCEPT ![db_name] = c.myisam]
                          /\ history' = Append(history, Event("catalog", db_name, TRUE, <<>>))
                          /\ Advance("fetch_table_info", NextStep("fetch_table_info"))
                          /\ UNCHANGED error
    /\ UNCHANGED <<databases, _db_tables_locked, table_schemas, manifest,
                   snapshot_calls, db_files, del_exc>>

\* flush_tables reading the catalog of the database again before the flush.
flush_tables_requery ==
    /\ pc = "flush_tables"
    /\ LET db_name == databases[i]
       IN \E r \in get_db(db_name) :
          /\ _db_instances' = r.instances
          /\ IF ~r.ok
             THEN /\ Raise(r.exc, "flush_tables", db_name, 0)
                  /\ UNCHANGED <<_db_tables_locked, history, innodb_tables, myisam_tables>>
             ELSE \E cat \in Catalogs :
                  LET c == ClassifyRows(CatalogQuery(cat), <<>>, <<>>)
                      tables == c.innodb \o c.myisam
                  IN /\ innodb_tables' = [innodb_tables EXCEPT ![db_name] = c.innodb]
                     /\ myisam_tables' = [myisam_tables EXCEPT ![db_name] = c.myisam]
                     /\ \/ /\ Raise("OperationalError", "flush_tables", db_name, 0)
                           /\ history' = Append(history, Event("flush", db_name, FALSE, tables))
                           /\ UNCHANGED _db_tables_locked
                        \/ /\ history' = Append(history, Event("flush", db_name, TRUE, tables))
                           /\ _db_tables_locked' = [_db_tables_locked EXCEPT ![db_name] = TRUE]
                           /\ Advance("flush_tables", NextStep("flush_tables"))
                           /\ UNCHANGED error
    /\ UNCHANGED <<databases, table_schemas, manifest, snapshot_calls, db_files,
                   del_exc>>

\* flush_tables recording the lock under the first configured database.
flush_tables_flag_first_db ==
    /\ pc = "flush_tables"
    /\ LET db_name == databases[i]
           tables == innodb_tables[db_name] \o myisam_tables[db_name]
       IN \E r \in get_db(db_name) :
          /\ _db_instances' = r.instances
          /\ IF ~r.ok
             THEN /\ Raise(r.exc, "flush_tables", db_name, 0)
                  /\ UNCHANGED <<_db_tables_locked, history>>
             ELSE \/ /\ Raise("OperationalError", "flush_tables", db_name, 0)
                     /\ history' = Append(history, Event("flush", db_name, FALSE, tables))
                     /\ UNCHANGED _db_tables_locked
                  \/ /\ history' = Append(history, Event("flush", db_name, TRUE, tables))
                     /\ _db_tables_locked' = [_db_tables_locked EXCEPT ![databases[1]] = TRUE]
                     /\ Advance("flush_tables", NextStep("flush_tables"))
                     /\ UNCHANGED error
    /\ UNCHANGED <<databases, innodb_tables, myisam_tables, table_schemas,
                   manifest, snapshot_calls, db_files, del_exc>>

flush_tables ==
    /\ pc = "flush_tables"
    /\ LET db_name == databases[i]
           tables == innodb_tables[db_name] \o myisam_tables[db_name]
       IN \E r \in get_db(db_name) :
          /\ _db_instances' = r.instances
          /\ IF ~r.ok
             THEN /\ Raise(r.exc, "flush_tables", db_name, 0)
                  /\ UNCHANGED <<_db_tables_locked, history>>
             ELSE \/ /\ Raise("OperationalError", "flush_tables", db_name, 0)
                     /\ history' = Append(history, Event("flush", db_name, FALSE, tables))
                     /\ UNCHANGED _db_tables_locked
                  \/ /\ history' = Append(history, Event("flush", db_name, TRUE, tables))
                     /\ _db_tables_locked' = [_db_tables_locked EXCEPT ![db_name] = TRUE]
                     /\ Advance("flush_tables", NextStep("flush_tables"))
                     /\ UNCHANGED error
    /\ UNCHANGED <<databases, innodb_tables, myisam_tables, table_schemas,
                   manifest, snapshot_calls, db_files, del_exc>>

\* listdir, open and fsync of every file of one database directory; any of
\* them may raise OSError.
flush_changes_to_disk ==
    /\ pc = "flush_changes_to_disk"
    /\ LET db_name == databases[i]
       IN \/ /\ Raise("OSError", "flush_changes_to_disk", db_name, 0)
             /\ history' = Append(history, Event("sync", db_name, FALSE, <<>>))
          \/ /\ history' = Append(history, Event("sync", db_name, TRUE, <<>>))
             /\ Advance("flush_changes_to_disk", NextStep("flush_changes_to_disk"))
             /\ UNCHANGED error
    /\ UNCHANGED <<databases, _db_instances, _db_tables_locked, innodb_tables,
                   myisam_tables, table_schemas, manifest, snapshot_calls,
                   db_files, del_exc>>

\* Files of a database directory, <<table, extension>> for table.extension.
Files == Tables \X Extensions

\* The loop over the InnoDB tables: first table whose .ibd file is absent.
RECURSIVE MissingIbd(_, _)
MissingIbd(tables, files) ==
    IF tables = <<>> THEN 0
    ELSE IF <<Head(tables), "ibd">> \notin files THEN Head(tables)
    ELSE MissingIbd(Tail(tables), files)

\* The MyISAM loop checking the data file only.
RECURSIVE MissingMyd_data_only(_, _)
MissingMyd_data_only(tables, files) ==
    IF tables = <<>> THEN 0
    ELSE IF <<Head(tables), "MYD">> \notin files THEN Head(tables)
    ELSE MissingMyd_data_only(Tail(tables), files)

\* The loop over the MyISAM tables: first table whose .MYD or .MYI is absent.
RECURSIVE MissingMyd(_, _)
MissingMyd(tables, files) ==
    IF tables = <<>> THEN 0
    ELSE IF <<Head(tables), "MYD">> \notin files
            \/ <<Head(tables), "MYI">> \notin files THEN Head(tables)
    ELSE MissingMyd(Tail(tables), files)

\* validate_exportable_files, first half of one iteration: list the directory.
validate_exportable_files ==
    /\ pc = "validate_exportable_files"
    /\ LET db_name == databases[i]
       IN \/ /\ Raise("OSError", "validate_exportable_files", db_name, 0)
             /\ history' = Append(history, Event("listdir", db_name, FALSE, <<>>))
             /\ UNCHANGED db_files
          \/ \E listing \in SUBSET Files :
             /\ db_files' = listing
             /\ history' = Append(history, Event("listdir", db_name, TRUE, <<>>))
             /\ pc' = "validate_exportable_files_check"
             /\ UNCHANGED <<i, error>>
    /\ UNCHANGED <<databases, _db_instances, _db_tables_locked, innodb_tables,
                   myisam_tables, table_schemas, manifest, snapshot_calls, del_exc>>

\* validate_exportable_files, second half of one iteration: the two loops
\* over the catalogued tables.  db_files is a local of the iteration.
validate_exportable_files_check ==
    /\ pc = "validate_exportable_files_check"
    /\ LET db_name == databases[i]
           ibd == MissingIbd(innodb_tables[db_name], db_files)
           myd == MissingMyd(myisam_tables[db_name], db_files)
       IN IF ibd # 0
          THEN /\ Raise("DatabaseExportFileNotFoundError",
                        "validate_exportable_files", db_name, ibd)
               /\ history' = Append(history, Event("validate", db_name, FALSE, <<>>))
          ELSE IF myd # 0
          THEN /\ Raise("DatabaseExportFileNotFoundError",
                        "validate_exportable_files", db_name, myd)
               /\ history' = Append(history, Event("validate", db_name, FALSE, <<>>))
          ELSE /\ history' = Append(history, Event("validate", db_name, TRUE, <<>>))
               /\ Advance("validate_exportable_files", NextStep("validate_exportable_files"))
               /\ UNCHANGED error
    /\ db_files' = {}
    /\ UNCHANGED <<databases, _db_instances, _db_tables_locked, innodb_tables,
                   myisam_tables, table_schemas, manifest, snapshot_calls, del_exc>>

\* export_table_schema: the dump utility prints the DDL or exits non-zero.
export_table_schema(db_name) ==
    {[ok |-> TRUE, exc |-> "none", output |-> t] : t \in SchemaTexts}
    \cup {[ok |-> FALSE, exc |-> "DatabaseSchemaExportError", output |-> ""]}

export_table_schemas ==
    /\ pc = "export_table_schemas"
    /\ LET db_name == databases[i]
       IN \E r \in export_table_schema(db_name) :
          /\ history' = Append(history, Event("dump", db_name, r.ok, <<>>))
          /\ IF ~r.ok
             THEN /\ Raise(r.exc, "export_table_schemas", db_name, 0)
                  /\ UNCHANGED table_schemas
             ELSE /\ table_schemas' =
                       [d \in DOMAIN table_schemas \cup {db_name} |->
                           IF d = db_name THEN r.output ELSE table_schemas[d]]
                  /\ Advance("export_table_schemas", NextStep("export_table_schemas"))
                  /\ UNCHANGED error
    /\ UNCHANGED <<databases, _db_instances, _db_tables_locked, innodb_tables,
                   myisam_tables, manifest, snapshot_calls, db_files, del_exc>>

\* export_collected_metadata taking every schema from the first database.
export_collected_metadata_first_schema ==
    /\ pc = "export_collected_metadata"
    /\ manifest' = [db_name \in Range(databases) |->
                       [innodb_tables |-> innodb_tables[db_name],
                        myisam_tables |-> myisam_tables[db_name],
                        table_schemas |-> table_schemas[databases[1]]]]
    /\ history' = Append(history, Event("manifest", "*", TRUE, <<>>))
    /\ pc' = NextStep("export_collected_metadata")
    /\ UNCHANGED <<databases, _db_instances, _db_tables_locked, innodb_tables,
                   myisam_tables, table_schemas, snapshot_calls, db_files,
                   i, error, del_exc>>

export_collected_metadata ==
    /\ pc = "export_collected_metadata"
    /\ manifest' = [db_name \in Range(databases) |->
                       [innodb_tables |-> innodb_tables[db_name],
                        myisam_tables |-> myisam_tables[db_name],
                        table_schemas |-> table_schemas[db_name]]]
    /\ history' = Append(history, Event("manifest", "*", TRUE, <<>>))
    /\ pc' = NextStep("export_collected_metadata")
    /\ UNCHANGED <<databases, _db_instances, _db_tables_locked, innodb_tables,
                   myisam_tables, table_schemas, snapshot_calls, db_files,
                   i, error, del_exc>>

\* create_snapshot repeating the request once after a rejected response.
create_snapshot_retry ==
    /\ pc = "create_snapshot"
    /\ snapshot_calls' = snapshot_calls + 1
    /\ \/ /\ Raise("ConnectionError", "create_snapshot", "*", 0)
          /\ history' = Append(history, Event("snapshot", "*", FALSE, <<>>))
       \/ /\ snapshot_calls = 0
          /\ history' = Append(history, Event("snapshot", "*", FALSE, <<>>))
          /\ UNCHANGED <<pc, i, error>>
       \/ /\ snapshot_calls > 0
          /\ Raise("HTTPError", "create_snapshot", "*", 0)
          /\ history' = Append(history, Event("snapshot", "*", FALSE, <<>>))
       \/ /\ history' = Append(history, Event("snapshot", "*", TRUE, <<>>))
          /\ pc' = NextStep("create_snapshot")
          /\ UNCHANGED <<i, error>>
    /\ UNCHANGED <<databases, _db_instances, _db_tables_locked, innodb_tables,
                   myisam_tables, table_schemas, manifest, db_files, del_exc>>

\* create_snapshot: the POST raises, or returns a response whose status
\* raise_for_status accepts or rejects.
create_snapshot ==
    /\ pc = "create_snapshot"
    /\ snapshot_calls' = snapshot_calls + 1
    /\ \/ /\ Raise("ConnectionError", "create_snapshot", "*", 0)
          /\ history' = Append(history, Event("snapshot", "*", FALSE, <<>>))
       \/ /\ Raise("HTTPError", "create_snapshot", "*", 0)
          /\ history' = Append(history, Event("snapshot", "*", FALSE, <<>>))
       \/ /\ history' = Append(history, Event("snapshot", "*", TRUE, <<>>))
          /\ pc' = NextStep("create_snapshot")
          /\ UNCHANGED <<i, error>>
    /\ UNCHANGED <<databases, _db_instances, _db_tables_locked, innodb_tables,
                   myisam_tables, table_schemas, manifest, db_files, del_exc>>

\* _unlock_tables resetting the whole flag map after the statement.
_unlock_tables_clear_all(db_name) ==
    UNION {
      IF ~r.ok
      THEN {[ok |-> FALSE, exc |-> r.exc, instances |-> r.instances,
             locked |-> _db_tables_locked, events |-> <<>>]}
      ELSE {[ok |-> FALSE, exc |-> "OperationalError", instances |-> r.instances,
             locked |-> _db_tables_locked,
             events |-> <<Event("unlock", db_name, FALSE, <<>>)>>],
            [ok |-> TRUE, exc |-> "none", instances |-> r.instances,
             locked |-> [d \in DOMAIN _db_tables_locked |-> FALSE],
             events |-> <<Event("unlock", db_name, TRUE, <<>>)>>]}
      : r \in get_db(db_name)}

\* _unlock_tables clearing the flag before the statement is executed.
_unlock_tables_flag_first(db_name) ==
    UNION {
      IF ~r.ok
      THEN {[ok |-> FALSE, exc |-> r.exc, instances |-> r.instances,
             locked |-> _db_tables_locked, events |-> <<>>]}
      ELSE {[ok |-> FALSE, exc |-> "OperationalError", instances |-> r.instances,
             locked |-> [_db_tables_locked EXCEPT ![db_name] = FALSE],
             events |-> <<Event("unlock", db_name, FALSE, <<>>)>>],
            [ok |-> TRUE, exc |-> "none", instances |-> r.instances,
             locked |-> [_db_tables_locked EXCEPT ![db_name] = FALSE],
             events |-> <<Event("unlock", db_name, TRUE, <<>>)>>]}
      : r \in get_db(db_name)}

\* _unlock_tables: the set of outcomes of one call.
_unlock_tables(db_name) ==
    UNION {
      IF ~r.ok
      THEN {[ok |-> FALSE, exc |-> r.exc, instances |-> r.instances,
             locked |-> _db_tables_locked, events |-> <<>>]}
      ELSE {[ok |-> FALSE, exc |-> "OperationalError", instances |-> r.instances,
             locked |-> _db_tables_locked,
             events |-> <<Event("unlock", db_name, FALSE, <<>>)>>],
            [ok |-> TRUE, exc |-> "none", instances |-> r.instances,
             locked |-> [_db_tables_locked EXCEPT ![db_name] = FALSE],
             events |-> <<Event("unlock", db_name, TRUE, <<>>)>>]}
      : r \in get_db(db_name)}

\* unlock_all_tables returning after the first database.
unlock_all_tables_first_only ==
    /\ pc = "unlock_all_tables"
    /\ LET db_name == databases[i]
       IN \E u \in _unlock_tables(db_name) :
          /\ _db_instances' = u.instances
          /\ _db_tables_locked' = u.locked
          /\ history' = history \o u.events
          /\ IF ~u.ok
             THEN Raise(u.exc, "unlock_all_tables", db_name, 0)
             ELSE /\ pc' = NextStep("unlock_all_tables")
                  /\ i' = 1
                  /\ UNCHANGED error
    /\ UNCHANGED <<databases, innodb_tables, myisam_tables, table_schemas,
                   manifest, snapshot_calls, db_files, del_exc>>

unlock_all_tables ==
    /\ pc = "unlock_all_tables"
    /\ LET db_name == databases[i]
       IN \E u \in _unlock_tables(db_name) :
          /\ _db_instances' = u.instances
          /\ _db_tables_locked' = u.locked
          /\ history' = history \o u.events
          /\ IF ~u.ok
             THEN Raise(u.exc, "unlock_all_tables", db_name, 0)
             ELSE /\ Advance("unlock_all_tables", NextStep("unlock_all_tables"))
                  /\ UNCHANGED error
    /\ UNCHANGED <<databases, innodb_tables, myisam_tables, table_schemas,
                   manifest, snapshot_calls, db_files, del_exc>>

\* ---- teardown -----------------------------------------------------------
\* The instance is dropped after backup_job returned or raised, or after
\* __init__ raised, and __del__ starts.  After a failed __init__ the
\* attribute self.databases does not exist.
del_begin ==
    /\ pc \in {"returned", "raised", "ctor_raised"}
    /\ IF pc = "ctor_raised"
       THEN /\ pc' = "del_raised"
            /\ del_exc' = "AttributeError"
       ELSE /\ pc' = "del_unlock"
            /\ UNCHANGED del_exc
    /\ i' = 1
    /\ UNCHANGED <<databases, _db_instances, _db_tables_locked, innodb_tables,
                   myisam_tables, table_schemas, manifest, snapshot_calls,
                   db_files, error, history>>

\* __del__, first loop: unlock the databases still flagged locked.
del_unlock ==
    /\ pc = "del_unlock"
    /\ LET db_name == databases[i]
       IN IF _db_tables_locked[db_name]
          THEN \E u \in _unlock_tables(db_name) :
               /\ _db_instances' = u.instances
               /\ _db_tables_locked' = u.locked
               /\ history' = history \o u.events
               /\ IF ~u.ok
                  THEN /\ pc' = "del_raised"
                       /\ i' = 1
                       /\ del_exc' = u.exc
                  ELSE /\ Advance("del_unlock", "del_close")
                       /\ UNCHANGED del_exc
          ELSE /\ Advance("del_unlock", "del_close")
               /\ UNCHANGED <<_db_instances, _db_tables_locked, history, del_exc>>
    /\ UNCHANGED <<databases, innodb_tables, myisam_tables, table_schemas,
                   manifest, snapshot_calls, db_files, error>>

\* __del__, second loop: get_db(db_name).close().
del_close ==
    /\ pc = "del_close"
    /\ LET db_name == databases[i]
       IN \E r \in get_db(db_name) :
          IF ~r.ok
          THEN /\ _db_instances' = r.instances
               /\ pc' = "del_raised"
               /\ i' = 1
               /\ del_exc' = r.exc
               /\ UNCHANGED history
          ELSE /\ _db_instances' = [r.instances EXCEPT ![db_name] = "closed"]
               /\ history' = Append(history, Event("close", db_name, TRUE, <<>>))
               /\ Advance("del_close", "del_done")
               /\ UNCHANGED del_exc
    /\ UNCHANGED <<databases, _db_tables_locked, innodb_tables, myisam_tables,
                   table_schemas, manifest, snapshot_calls, db_files, error>>

\* backup_job: the steps in the order of its body.
backup_job ==
    \/ fetch_table_info
    \/ flush_tables
    \/ flush_changes_to_disk
    \/ validate_exportable_files
    \/ validate_exportable_files_check
    \/ export_table_schemas
    \/ export_collected_metadata
    \/ create_snapshot
    \/ unlock_all_tables

Next ==
    \/ backup_job
    \/ del_begin
    \/ del_unlock
    \/ del_close

Spec == Init /\ [][Next]_vars

\* ---- the registry on its own --------------------------------------------
\* A constructed instance and a sequence of get_db calls with any name, each
\* recorded with its outcome and the state of the handle it leaves.
RegistryInit ==
    /\ databases \in SeqsUpTo(DbNames, MaxDbs) \ {<<>>}
    /\ _db_instances = [d \in DbNames |-> "none"]
    /\ _db_tables_locked = [d \in Range(databases) |-> FALSE]
    /\ innodb_tables = [d \in Range(databases) |-> <<>>]
    /\ myisam_tables = [d \in Range(databases) |-> <<>>]
    /\ table_schemas = [d \in {} |-> ""]
    /\ manifest = [d \in {} |-> ""]
    /\ snapshot_calls = 0
    /\ db_files = {}
    /\ i = 1
    /\ history = <<>>
    /\ del_exc = "none"
    /\ pc = "get_db"
    /\ error = NoError

get_db_call ==
    /\ pc = "get_db"
    /\ Len(history) < MaxCalls
    /\ \E db_name \in DbNames : \E r \in get_db(db_name) :
          /\ _db_instances' = r.instances
          /\ history' = Append(history,
                Event("get_db", db_name, r.ok, <<r.exc, r.instances[db_name]>>))
    /\ UNCHANGED <<databases, _db_tables_locked, innodb_tables, myisam_tables,
                   table_schemas, manifest, snapshot_calls, db_files, pc, i,
                   error, del_exc>>

SpecRegistry == RegistryInit /\ [][get_db_call]_vars

\* ---- the catalog step on its own ----------------------------------------
\* fetch_table_info over catalogs of up to MaxRows tables, for one database,
\* two databases and one database configured twice; each successful query is
\* recorded with the rows it returned.
RowCatalogs == UNION {[T -> Engines] : T \in SUBSET (1..MaxRows)}

CatalogInit ==
    /\ databases \in {<<"a">>, <<"a", "b">>, <<"a", "a">>}
    /\ _db_instances = [d \in DbNames |-> "none"]
    /\ _db_tables_locked = [d \in Range(databases) |-> FALSE]
    /\ innodb_tables = [d \in Range(databases) |-> <<>>]
    /\ myisam_tables = [d \in Range(databases) |-> <<>>]
    /\ table_schemas = [d \in {} |-> ""]
    /\ manifest = [d \in {} |-> ""]
    /\ snapshot_calls = 0
    /\ db_files = {}
    /\ i = 1
    /\ history = <<>>
    /\ del_exc = "none"
    /\ pc = "fetch_table_info"
    /\ error = NoError

fetch_table_info_rows ==
    /\ pc = "fetch_table_info"
    /\ LET db_name == databases[i]
       IN \E r \in get_db(db_name) :
          /\ _db_instances' = r.instances
          /\ IF ~r.ok
             THEN /\ Raise(r.exc, "fetch_table_info", db_name, 0)
                  /\ UNCHANGED <<innodb_tables, myisam_tables, history>>
             ELSE \/ /\ Raise("OperationalError", "fetch_table_info", db_name, 0)
                     /\ history' = Append(history, Event("catalog", db_name, FALSE, <<>>))
                     /\ UNCHANGED <<innodb_tables, myisam_tables>>
                  \/ \E cat \in RowCatalogs :
                       LET data == CatalogQuery(cat)
                           c == ClassifyRows(data, innodb_tables[db_name],
                                             myisam_tables[db_name])
                       IN /\ innodb_tables' = [innodb_tables EXCEPT ![db_name] = c.innodb]
                          /\ myisam_tables' = [myisam_tables EXCEPT ![db_name] = c.myisam]
                          /\ history' = Append(history, Event("catalog", db_name, TRUE, data))
                          /\ Advance("fetch_table_info", NextStep("fetch_table_info"))
                          /\ UNCHANGED error
    /\ UNCHANGED <<databases, _db_tables_locked, table_schemas, manifest,
                   snapshot_calls, db_files, del_exc>>

SpecCatalog == CatalogInit /\ [][fetch_table_info_rows]_vars

\* ---- properties ---------------------------------------------------------
AllLocked == \A d \in Range(databases) : _db_tables_locked[d]

AllUnlocked == \A d \in DOMAIN _db_tables_locked : ~_db_tables_locked[d]

TeardownFinished == pc \in {"del_done", "del_raised"}

InTeardown == pc \in {"del_unlock", "del_close", "del_done", "del_raised"}

\* Number of successful events of an operation among the first n of h.
Count(h, op, n) ==
    Cardinality({k \in 1..n : h[k].op = op /\ h[k].ok})

\* The operation succeeded for database d at some point of h.
Completed(h, op, d) ==
    \E k \in 1..Len(h) : h[k].op = op /\ h[k].db = d /\ h[k].ok

\* An event of the operation, successful or not, is in h.
Attempted(h, op) == \E k \in 1..Len(h) : h[k].op = op

TwoDatabases == Len(databases) = 2 /\ databases[1] # databases[2]

\* C1: once the run and __del__ have finished, whatever way the run ended,
\* every database's lock flag in _db_tables_locked is false.
C1_UnlockedAfterTeardown == TeardownFinished => AllUnlocked

\* C2: the snapshot request is issued only when every configured database
\* has completed flush-for-export, durable sync, file validation and schema
\* export, no unlock has been issued yet, and every lock flag is true.
C2_SnapshotInsideLockWindow ==
    [][snapshot_calls' # snapshot_calls =>
         /\ AllLocked
         /\ \A d \in Range(databases) :
              /\ Completed(history, "flush", d)
              /\ Completed(history, "sync", d)
              /\ Completed(history, "validate", d)
              /\ Completed(history, "dump", d)
         /\ ~Attempted(history, "unlock")]_vars

C2_Witness == snapshot_calls = 1 /\ TwoDatabases /\ pc = "unlock_all_tables"

\* C3: if the flush-for-export statement fails for a database, the snapshot
\* endpoint is never called and, after teardown, every database that had
\* been locked is unlocked.
C3_FlushFailureCleanup ==
    (TeardownFinished /\ \E k \in 1..Len(history) :
                            history[k].op = "flush" /\ ~history[k].ok)
        => (snapshot_calls = 0 /\ AllUnlocked)

\* C4: backup_job never returns and never raises while some database's lock
\* flag is still true.
C4_NoExitWhileLocked == pc \in {"returned", "raised"} => AllUnlocked

\* C5: the schema dump of a database runs, and its schema text is written,
\* only while that database's lock flag is true and after its flush
\* succeeded; the snapshot request is issued only while every flag is true.
C5_LockedWhenExportedOrSnapshotted ==
    [][/\ \A d \in Range(databases) :
            (\/ (Len(history') > Len(history)
                    /\ history'[Len(history')].op = "dump"
                    /\ history'[Len(history')].db = d)
             \/ d \in DOMAIN table_schemas' \ DOMAIN table_schemas
             \/ (d \in DOMAIN table_schemas /\ table_schemas'[d] # table_schemas[d]))
            => (_db_tables_locked[d] /\ Completed(history, "flush", d))
       /\ snapshot_calls' # snapshot_calls => AllLocked]_vars

C5_Witness ==
    /\ TwoDatabases
    /\ DOMAIN table_schemas = Range(databases)
    /\ snapshot_calls = 1

\* C6: a lock flag is true only after a successful flush-for-export of that
\* database with no successful unlock since; a flag becomes true only by a
\* successful flush, becomes false only by a successful unlock in the unlock
\* step or in teardown, and a failed flush leaves every flag as it was.
LockedSinceFlush(d) ==
    \E k \in 1..Len(history) :
        /\ history[k] = Event("flush", d, TRUE, history[k].arg)
        /\ \A j \in (k + 1)..Len(history) :
              ~(history[j].op = "unlock" /\ history[j].db = d /\ history[j].ok)

FlagTransition(d) ==
    /\ (~_db_tables_locked[d] /\ _db_tables_locked'[d]) =>
          /\ pc = "flush_tables"
          /\ databases[i] = d
          /\ Len(history') = Len(history) + 1
          /\ history'[Len(history')].op = "flush"
          /\ history'[Len(history')].db = d
          /\ history'[Len(history')].ok
    /\ (_db_tables_locked[d] /\ ~_db_tables_locked'[d]) =>
          /\ pc \in {"unlock_all_tables", "del_unlock"}
          /\ databases[i] = d
          /\ Len(history') = Len(history) + 1
          /\ history'[Len(history')].op = "unlock"
          /\ history'[Len(history')].db = d
          /\ history'[Len(history')].ok
    /\ (Len(history') > Len(history)
          /\ history'[Len(history')].op = "flush"
          /\ ~history'[Len(history')].ok) =>
          _db_tables_locked'[d] = _db_tables_locked[d]

C6_FlagFollowsFlushAndUnlock ==
    /\ [](\A d \in DOMAIN _db_tables_locked :
             _db_tables_locked[d] => LockedSinceFlush(d))
    /\ [][\A d \in DOMAIN _db_tables_locked : FlagTransition(d)]_vars

C6_Witness ==
    /\ TwoDatabases
    /\ ~_db_tables_locked[databases[1]]
    /\ _db_tables_locked[databases[2]]
    /\ Completed(history, "unlock", databases[1])

\* C7: a call of _unlock_tables for a database whose flag is already false
\* issues no unlock statement, changes no connection and no flag, and does
\* not raise.
C7_UnlockIdempotent ==
    [][(pc = "unlock_all_tables" /\ ~_db_tables_locked[databases[i]]) =>
          /\ history' = history
          /\ _db_instances' = _db_instances
          /\ _db_tables_locked' = _db_tables_locked
          /\ pc' # "raised"]_vars

\* C8: when the directory listing of a database lacks the .ibd file of a
\* catalogued InnoDB table or the .MYD or .MYI file of a catalogued MyISAM
\* table, validate_exportable_files raises DatabaseExportFileNotFoundError
\* naming a table with a missing file, and a run that failed this way has no
\* schema dump, no schema text and no snapshot call.
LackingTables(d, files) ==
    {t \in Range(innodb_tables[d]) : <<t, "ibd">> \notin files}
    \cup {t \in Range(myisam_tables[d]) :
             <<t, "MYD">> \notin files \/ <<t, "MYI">> \notin files}

C8_MissingFileAborts ==
    /\ [][(pc = "validate_exportable_files_check"
             /\ LackingTables(databases[i], db_files) # {}) =>
            /\ pc' = "raised"
            /\ error'.kind = "DatabaseExportFileNotFoundError"
            /\ error'.db = databases[i]
            /\ error'.table \in LackingTables(databases[i], db_files)]_vars
    /\ [](error.kind = "DatabaseExportFileNotFoundError" =>
            /\ snapshot_calls = 0
            /\ DOMAIN table_schemas = {}
            /\ ~Attempted(history, "dump")
            /\ ~Attempted(history, "snapshot"))

C8_Witness ==
    /\ TwoDatabases
    /\ TeardownFinished
    /\ error.kind = "DatabaseExportFileNotFoundError"
    /\ error.db = databases[2]
    /\ error.table \in Range(myisam_tables[databases[2]])

\* C9: when an operation of backup_job happens, every operation before it
\* belongs to the same or an earlier step, and every earlier step has
\* succeeded once per configured database (once in all for the manifest and
\* the snapshot); in particular a flag is true only after the catalog of
\* every database was read, and after a durable sync every database is
\* locked until the unlock step.
StepRank(op) ==
    CASE op = "catalog" -> 1
      [] op = "flush" -> 2
      [] op = "sync" -> 3
      [] op = "listdir" -> 4
      [] op = "validate" -> 4
      [] op = "dump" -> 5
      [] op = "manifest" -> 6
      [] op = "snapshot" -> 7
      [] op = "unlock" -> 8
      [] OTHER -> 9

StepOps == {"catalog", "flush", "sync", "validate", "dump", "manifest", "snapshot"}

Times(op) == IF op \in {"manifest", "snapshot"} THEN 1 ELSE Len(databases)

C9_StepMajor ==
    /\ [][(~InTeardown /\ Len(history') > Len(history)) =>
            LET e == history'[Len(history')]
            IN /\ \A k \in 1..Len(history) :
                     StepRank(history[k].op) <= StepRank(e.op)
               /\ \A op \in StepOps :
                     StepRank(op) < StepRank(e.op)
                        => Count(history, op, Len(history)) = Times(op)]_vars
    /\ [](~InTeardown =>
            /\ (\E d \in Range(databases) : _db_tables_locked[d])
                  => Count(history, "catalog", Len(history)) = Len(databases)
            /\ (Attempted(history, "sync") /\ ~Attempted(history, "unlock"))
                  => AllLocked)

C9_Witness == pc = "returned" /\ TwoDatabases /\ Len(history) >= 14

\* C10: after a run of backup_job in which every step succeeded, the
\* snapshot was requested once and every database's lock flag is false.
C10_UnlockedAfterSuccess ==
    pc = "returned" =>
       /\ databases # <<>>
       /\ error = NoError
       /\ snapshot_calls = 1
       /\ AllUnlocked

C10_Witness ==
    /\ pc = "returned"
    /\ TwoDatabases
    /\ Completed(history, "unlock", databases[1])
    /\ Completed(history, "unlock", databases[2])

\* C11: once export_collected_metadata has run, the manifest has exactly one
\* entry per configured database, holding that database's InnoDB list, its
\* MyISAM list and the schema text stored for that database by its dump.
C11_ManifestPerDatabase ==
    Attempted(history, "manifest") =>
       /\ DOMAIN manifest = Range(databases)
       /\ DOMAIN table_schemas = Range(databases)
       /\ \A d \in Range(databases) :
             /\ DOMAIN manifest[d] = {"innodb_tables", "myisam_tables", "table_schemas"}
             /\ manifest[d].innodb_tables = innodb_tables[d]
             /\ manifest[d].myisam_tables = myisam_tables[d]
             /\ manifest[d].table_schemas = table_schemas[d]
             /\ table_schemas[d] \in SchemaTexts
             /\ Completed(history, "dump", d)

C11_Witness ==
    /\ pc = "returned"
    /\ TwoDatabases
    /\ manifest[databases[1]].table_schemas # manifest[databases[2]].table_schemas
    /\ manifest[databases[1]].innodb_tables # manifest[databases[2]].innodb_tables

\* C12: with an empty database list __init__ raises ValueError, and neither
\* construction nor __del__ opens a connection or issues any operation.
C12_EmptyListRejected ==
    databases = <<>> =>
       /\ pc \in {"ctor_raised", "del_raised"}
       /\ error.kind = "ValueError"
       /\ error.step = "__init__"
       /\ \A d \in DbNames : _db_instances[d] = "none"
       /\ history = <<>>

C12_Witness == databases = <<>> /\ pc = "del_raised" /\ del_exc = "AttributeError"

\* C13: over any sequence of get_db calls a handle is created only for a
\* configured name that has none, and an existing handle is never replaced;
\* a call for a name with a handle either returns that handle after the
\* liveness check or raises DatabaseConnectionClosedWithDatabase, always the
\* latter when the handle is not usable; a call for a name outside the
\* configured set raises ValueError and creates no handle.
Usable(st) == st \in {"connected", "ready"}

GetDbContract(e) ==
    LET before == _db_instances[e.db]
        after == _db_instances'[e.db]
    IN /\ \A d \in DbNames \ {e.db} : _db_instances'[d] = _db_instances[d]
       /\ (before = "none" /\ e.db \notin Range(databases)) =>
             (~e.ok /\ e.arg[1] = "ValueError" /\ after = "none")
       /\ (before # "none" /\ ~Usable(before)) =>
             (~e.ok /\ e.arg[1] = "DatabaseConnectionClosedWithDatabase"
                /\ after = before)
       /\ (before # "none" /\ Usable(before)) =>
             \/ (e.ok /\ after = before)
             \/ (~e.ok /\ e.arg[1] = "DatabaseConnectionClosedWithDatabase"
                   /\ ~Usable(after) /\ after # "none")
       /\ (before = "none" /\ after # "none") => e.db \in Range(databases)
       /\ e.ok => Usable(after)

C13_OneHandlePerDatabase ==
    [][Len(history') = Len(history) + 1 => GetDbContract(history'[Len(history')])]_vars

C13_Witness ==
    /\ Len(history) = 3
    /\ history[1].db = history[2].db
    /\ history[1].ok /\ ~history[2].ok
    /\ history[3].db \notin Range(databases)

\* C14: every handle that get_db returns has had its session wait_timeout
\* raised.
C14_ReturnedHandleHasTimeout ==
    \A k \in 1..Len(history) :
        (history[k].op = "get_db" /\ history[k].ok) => history[k].arg[2] = "ready"

\* C15: the InnoDB list and the MyISAM list of every database are sorted by
\* table name.
IsSorted(s) == \A k \in 1..(Len(s) - 1) : s[k] <= s[k + 1]

C15_ListsSorted ==
    \A d \in Range(databases) :
        IsSorted(innodb_tables[d]) /\ IsSorted(myisam_tables[d])

\* C16: a successful catalog query appends the names of its InnoDB rows, in
\* row order, to the InnoDB list of that database and to no other list, the
\* names of its MyISAM rows to the MyISAM list and to no other list, and
\* drops the rows of every other engine without raising.
NamesOf(data, engine) ==
    LET OfEngine(row) == row[2] = engine
        rows == SelectSeq(data, OfEngine)
    IN  [k \in 1..Len(rows) |-> rows[k][1]]

C16_ClassifiedByEngine ==
    [][(Len(history') = Len(history) + 1
          /\ history'[Len(history')].op = "catalog"
          /\ history'[Len(history')].ok) =>
         LET e == history'[Len(history')]
         IN /\ innodb_tables'[e.db] = innodb_tables[e.db] \o NamesOf(e.arg, "InnoDB")
            /\ myisam_tables'[e.db] = myisam_tables[e.db] \o NamesOf(e.arg, "MyISAM")
            /\ \A d \in Range(databases) \ {e.db} :
                  /\ innodb_tables'[d] = innodb_tables[d]
                  /\ myisam_tables'[d] = myisam_tables[d]
            /\ pc' # "raised"
            /\ error' = NoError]_vars

C16_Witness ==
    /\ databases = <<"a">>
    /\ pc = "flush_tables"
    /\ history[1].arg = <<<<1, "InnoDB">>, <<2, "MyISAM">>, <<3, "CSV">>>>
    /\ innodb_tables["a"] = <<1>>
    /\ myisam_tables["a"] = <<2>>

C18_ClosedAfterTeardown ==
    TeardownFinished => \A d \in DbNames : ~Usable(_db_instances[d])

\* C19: once backup_job has failed its error is final and no operation of
\* any pipeline step happens any more, the snapshot count, the schema texts,
\* the manifest and the table lists stay as they are; in a run at most one
\* pipeline operation fails, the flush statement and the dump run at most
\* once per configured entry and the snapshot is requested at most once.
PipelineOps ==
    {"catalog", "flush", "sync", "listdir", "validate", "dump", "manifest", "snapshot"}

Attempts(op) == Cardinality({k \in 1..Len(history) : history[k].op = op})

Failures ==
    Cardinality({k \in 1..Len(history) :
                    history[k].op \in PipelineOps /\ ~history[k].ok})

C19_FailureIsFinal ==
    /\ [][error # NoError =>
            /\ error' = error
            /\ ~(Len(history') > Len(history)
                   /\ history'[Len(history')].op \in PipelineOps)
            /\ snapshot_calls' = snapshot_calls
            /\ table_schemas' = table_schemas
            /\ manifest' = manifest
            /\ innodb_tables' = innodb_tables
            /\ myisam_tables' = myisam_tables]_vars
    /\ [](/\ Failures <= 1
          /\ Failures = 1 => error # NoError
          /\ Attempts("flush") <= Len(databases)
          /\ Attempts("dump") <= Len(databases)
          /\ Attempts("snapshot") <= 1
          /\ snapshot_calls = Attempts("snapshot"))

C19_Witness ==
    /\ TeardownFinished
    /\ TwoDatabases
    /\ error.step = "export_table_schemas"
    /\ error.db = databases[1]
    /\ Completed(history, "unlock", databases[2])

\* C20: the entries of the configured list whose database is flagged locked
\* are, while flush_tables is at entry i, exactly the entries before i, and
\* while unlock_all_tables is at entry i, exactly the entries from i on.
LockedPositions == {k \in 1..Len(databases) : _db_tables_locked[databases[k]]}

C20_LockedContiguous ==
    /\ pc = "flush_tables" => LockedPositions = 1..(i - 1)
    /\ pc = "unlock_all_tables" => LockedPositions = i..Len(databases)

\* C20 as amended: the names flagged locked are, while flush_tables is at
\* entry i and when it fails there, exactly the names of the entries before
\* i, and, while unlock_all_tables is at entry i and when it fails there,
\* exactly the configured names that are not among the entries before i;
\* for a list without a repeated name these are the prefix before i and the
\* suffix from i.
LockedNames == {d \in DOMAIN _db_tables_locked : _db_tables_locked[d]}

Before(k) == Range(SubSeq(databases, 1, k - 1))

NoRepeatedName == Cardinality(Range(databases)) = Len(databases)

C20_LockedNamesFollowOrder ==
    /\ [](/\ pc = "flush_tables" => LockedNames = Before(i)
          /\ pc = "unlock_all_tables" => LockedNames = Range(databases) \ Before(i)
          /\ NoRepeatedName => C20_LockedContiguous)
    /\ [][/\ (pc = "flush_tables" /\ pc' = "raised") => LockedNames' = Before(i)
          /\ (pc = "unlock_all_tables" /\ pc' = "raised") =>
                LockedNames' = Range(databases) \ Before(i)]_vars

C20_Witness ==
    /\ TwoDatabases
    /\ pc = "unlock_all_tables"
    /\ i = 2
    /\ LockedNames = {databases[2]}
====
